---- MODULE Spec2Model ----
(***************************************************************************)
(* RedisCacheClient (src/src/redis/redis-client.ts) over a key-value store. *)
(* The store executes one command at a time; the client's delPattern fans  *)
(* out one pipeline of DEL commands per scan batch and joins them when the *)
(* scan stream ends.                                                       *)
(***************************************************************************)
EXTENDS Integers, Sequences, FiniteSets, TLC

\* ----------------------------------------------------------------- bounds
\* Scaled stand-in for the scan's count option (100 in the source).
BatchSize == 2
\* Commands other actors (other clients, expiry) may apply to the store.
MaxOther == 1
\* Store-side failures one run may inject (a rejected pipeline exec, a
\* failing DEL command).
MaxFail == 1
\* Scan steps of one run that report keys of slots already covered.
MaxRescan == 1
\* get, set, del, clear and disconnect calls of one run.
MaxOps == 2
\* Seconds the store's clock advances in one run.
MaxTime == 2
\* The get, set and del calls a caller makes while its delPattern call is in
\* flight.
MaxDuring == 1

\* ------------------------------------------------------------ the keyspace
\* Keys and glob patterns are sequences of characters.
K_u1 == <<"u", "1">>
K_u2 == <<"u", "2">>
K_p1 == <<"p", "1">>
Keys == {K_u1, K_u2, K_p1}

P_user == <<"u", "*">>
P_all == <<"*">>
P_none == <<"n", "*">>
Patterns == {P_user, P_all, P_none}
\* A pattern without wildcard, matching one key, and the patterns that overlap
\* with P_user without matching every key.
P_u1 == <<"u", "1">>
Overlapping == {P_user, P_u1}

\* Serialized values as the store holds them (the output of JSON.stringify).
D_id1 == "{\"id\":1}"
D_id2 == "{\"id\":2}"
Data == {D_id1, D_id2}
\* No entry under the key.
Nil == "<nil>"
\* JavaScript null, the neutral result of get.
Null == [t |-> "null"]
\* The error a failing scan command raises on the stream.
ScanErr == "scan error"
\* No error: the promise did not reject.
NoErr == "none"
\* An entry written without expiration (SET without EX).
NoExpiry == -1
\* The client has completed no key-value call yet.
NoCall == [op |-> "none"]
\* The entry, if any, was not written by a set of this client.
NoValue == [t |-> "none"]

\* The delPattern calls of one run: a first one and, where the caller calls
\* again, a second one.
Calls == {1, 2}
\* A call issues at most one pipeline per scan step: one step per key slot at
\* most, and the steps that report keys again.
MaxPipes == Cardinality(Keys) + MaxRescan

\* scanStream({match: pattern}): the store's glob match of a key.
RECURSIVE GlobMatch(_, _)
GlobMatch(p, s) ==
  IF p = <<>> THEN s = <<>>
  ELSE IF Head(p) = "*"
    THEN GlobMatch(Tail(p), s) \/ (s # <<>> /\ GlobMatch(p, Tail(s)))
  ELSE IF Head(p) = "?"
    THEN s # <<>> /\ GlobMatch(Tail(p), Tail(s))
  ELSE s # <<>> /\ Head(s) = Head(p) /\ GlobMatch(Tail(p), Tail(s))

Matching(p) == {k \in Keys : GlobMatch(p, k)}

\* The values set is called with: { id: 1 }, 0 and null.
V_obj(n) == [t |-> "object", id |-> n]
V_zero == [t |-> "number", n |-> 0]
Values == {V_obj(1), V_zero, Null}
\* The keys get, set and del are called with.
ClientKeys == {K_u1, K_p1}
\* set returns nothing.
Void == [t |-> "undefined"]

\* Bytes another client may leave under a key: an empty string, and a string
\* that is not JSON.
B_empty == ""
B_bad == "{id:1"
Bytes == Data \cup {B_empty, B_bad}

\* JsonStringify done with String(value): an object becomes '[object Object]'.
JsonStringifyAsString(v) ==
  CASE v.t = "object" -> "[object Object]"
    [] v.t = "number" -> ToString(v.n)
    [] v.t = "string" -> v.s
    [] v.t = "null" -> "null"

\* JSON.stringify(value).
JsonStringify(v) ==
  CASE v.t = "object" -> "{\"id\":" \o ToString(v.id) \o "}"
    [] v.t = "number" -> ToString(v.n)
    [] v.t = "string" -> "\"" \o v.s \o "\""
    [] v.t = "null" -> "null"

\* What JSON.parse throws on a string that is not JSON.
SyntaxError == [t |-> "SyntaxError"]

\* JSON.parse of the strings a run can hold.
JsonParse(data) ==
  CASE data = D_id1 -> [t |-> "object", id |-> 1]
    [] data = D_id2 -> [t |-> "object", id |-> 2]
    [] data = "0" -> [t |-> "number", n |-> 0]
    [] data = "\"\"" -> [t |-> "string", s |-> ""]
    [] data = "null" -> Null
    [] OTHER -> SyntaxError

\* NotData of a get that tests the decoded value for truthiness: a stored 0
\* counts as no data.
NotDataAlsoZero(data) == data = Nil \/ data = "" \/ data = "0"

\* !data for the reply of client.get: null (no entry) or the empty string.
NotData(data) == data = Nil \/ data = ""

\* get(key) when the store answers: null for no data and for data that does
\* not parse, else the decoded value.
Get(st, key) ==
  IF NotData(st[key]) THEN Null
  ELSE IF JsonParse(st[key]) = SyntaxError THEN Null
  ELSE JsonParse(st[key])

\* The ttl argument of set: omitted (<<>>) or <<seconds>>.
Ttls == {<<>>, <<0>>, <<1>>}

\* if (ttl): the argument is given and is not 0.
Truthy(ttl) == ttl # <<>> /\ ttl[1] # 0

\* ------------------------------------------------------------------ state
VARIABLES
  store,          \* the store: key -> serialized value, or Nil
  pc,             \* per call: idle, scanning, draining, done, failed
  pattern,        \* per call: the pattern it was called with
  unvisited,      \* per call: the part of the keyspace the scan cursor has not covered
  deletedCount,   \* per call: the tally
  pipes,          \* per call: the pipelines issued, in order (deletionPromises)
  settled,        \* per call: pending, resolved, rejected (the returned promise)
  result,         \* per call: the value the promise resolved with
  error,          \* per call: the error the promise rejected with
  logs,           \* what the logger was given
  nOther,         \* commands other actors have applied
  nFail,          \* failures injected
  store0,         \* history: per call, the store when the call started
  touched,        \* history: per call, keys written by others than the call since it started
  removedBy,      \* history: per call, the <<pipeline, command>> pairs whose DEL removed an entry
  nRescan,        \* scan steps that reported keys again
  expires,        \* the store: key -> the time its entry expires, or NoExpiry
  now,            \* the store's clock, in seconds
  conn,           \* the client's connection: open, closed
  last,           \* the client's last completed get, set, del, clear or disconnect call
  origin,         \* history: key -> the client's set that wrote the entry
  nOps,           \* get, set, del, clear and disconnect calls made
  logger          \* the injected logger: works, raises

\* The state of the key-value operations.
clientVars == <<expires, now, conn, last, origin, nOps, logger>>

vars == <<store, pc, pattern, unvisited, deletedCount, pipes, settled, result,
          error, logs, nOther, nFail, store0, touched, removedBy, nRescan,
          expires, now, conn, last, origin, nOps, logger>>

EmptyStore == [k \in Keys |-> Nil]

\* The orderings of a set of keys (one scan batch).
RECURSIVE Orderings(_)
Orderings(S) ==
  IF S = {} THEN {<<>>}
  ELSE UNION {{<<k>> \o t : t \in Orderings(S \ {k})} : k \in S}

Init ==
  /\ store \in [Keys -> {D_id1, Nil}]
  /\ pc = [c \in Calls |-> "idle"]
  /\ pattern = [c \in Calls |-> <<>>]
  /\ unvisited = [c \in Calls |-> {}]
  /\ deletedCount = [c \in Calls |-> 0]
  /\ pipes = [c \in Calls |-> <<>>]
  /\ settled = [c \in Calls |-> "pending"]
  /\ result = [c \in Calls |-> 0]
  /\ logs = {}
  /\ nOther = 0
  /\ nFail = 0
  /\ store0 = [c \in Calls |-> EmptyStore]
  /\ touched = [c \in Calls |-> {}]
  /\ error = [c \in Calls |-> NoErr]
  /\ removedBy = [c \in Calls |-> {}]
  /\ nRescan = 0
  /\ expires = [k \in Keys |-> NoExpiry]
  /\ now = 0
  /\ conn = "open"
  /\ last = NoCall
  /\ origin = [k \in Keys |-> NoValue]
  /\ nOps = 0
  /\ logger = "works"

\* ------------------------------------------------------------- delPattern
\* this.logger.error(...) / this.logger.info(...): the record handed to the logger.
LogEntry(level, what, c, n) == [level |-> level, what |-> what, call |-> c, n |-> n]

\* The calls in progress or finished: their history of foreign writes is kept.
Started == {c \in Calls : pc[c] # "idle"}

\* Key k was written through something other than a delPattern call's own
\* pipelines: by another actor, or by a set or del of the client.
Touch(k) ==
  [c \in Calls |-> IF c \in Started THEN touched[c] \cup {k} ELSE touched[c]]

\* The same for every key: the keyspace was flushed.
TouchAll == [c \in Calls |-> IF c \in Started THEN Keys ELSE touched[c]]

\* StartCall with the tally kept on the client instead of in the call: a
\* second call goes on from the first call's count.
StartCallKeepsTally(c, p) ==
  /\ pc[c] = "idle"
  /\ pc' = [pc EXCEPT ![c] = "scanning"]
  /\ pattern' = [pattern EXCEPT ![c] = p]
  /\ unvisited' = [unvisited EXCEPT ![c] = Keys]
  /\ deletedCount' = [deletedCount EXCEPT ![c] = IF c = 1 THEN 0 ELSE deletedCount[1]]
  /\ pipes' = [pipes EXCEPT ![c] = <<>>]
  /\ store0' = [store0 EXCEPT ![c] = store]
  /\ touched' = [touched EXCEPT ![c] = {}]
  /\ UNCHANGED <<store, settled, result, error, logs, nOther, nFail, removedBy>>
  /\ UNCHANGED <<nRescan, clientVars>>

\* delPattern(pattern): the promise is created and the scan stream opened.
StartCall(c, p) ==
  /\ pc[c] = "idle"
  /\ pc' = [pc EXCEPT ![c] = "scanning"]
  /\ pattern' = [pattern EXCEPT ![c] = p]
  /\ unvisited' = [unvisited EXCEPT ![c] = Keys]
  /\ deletedCount' = [deletedCount EXCEPT ![c] = 0]
  /\ pipes' = [pipes EXCEPT ![c] = <<>>]
  /\ store0' = [store0 EXCEPT ![c] = store]
  /\ touched' = [touched EXCEPT ![c] = {}]
  /\ UNCHANGED <<store, settled, result, error, logs, nOther, nFail, removedBy>>
  /\ UNCHANGED <<nRescan, clientVars>>

\* ScanBatch of a scan opened without the match option: every existing key.
ScanBatchNoMatch(c, S) == {k \in S : store[k] # Nil}

\* The keys one scan step reports when its cursor covers the slots S: the keys
\* of S that exist and match the pattern.
ScanBatch(c, S) == {k \in S : store[k] # Nil /\ GlobMatch(pattern[c], k)}

\* NewPipeline whose loop stops one key short.
NewPipelineDropsLast(keys) ==
  [keys |-> SubSeq(keys, 1, Len(keys) - 1), res |-> <<>>, st |-> "sent"]

\* pipeline.del(key) for each key, pipeline.exec(): the pipeline as issued.
NewPipeline(keys) == [keys |-> keys, res |-> <<>>, st |-> "sent"]

\* OnData with the guard off by one: a batch of one key issues no pipeline.
OnDataSkipsSingle(c, keys) ==
  IF Len(keys) > 1
    THEN pipes' = [pipes EXCEPT ![c] = Append(@, NewPipeline(keys))]
    ELSE UNCHANGED pipes

\* OnData without the length guard: an empty batch issues an empty pipeline.
OnDataAlways(c, keys) ==
  pipes' = [pipes EXCEPT ![c] = Append(@, NewPipeline(keys))]

\* stream.on('data', keys): a non-empty batch issues one pipeline and tracks
\* its promise; an empty one does nothing.
OnData(c, keys) ==
  IF Len(keys) # 0
    THEN pipes' = [pipes EXCEPT ![c] = Append(@, NewPipeline(keys))]
    ELSE UNCHANGED pipes

\* ScanData of a handler that pauses the stream until the batch-deletes it
\* issued have settled.
ScanDataAwaits(c) ==
  /\ pc[c] = "scanning"
  /\ \A i \in 1..Len(pipes[c]) : pipes[c][i].st # "sent"
  /\ \E S \in SUBSET unvisited[c] :
       /\ S # {}
       /\ Cardinality(ScanBatch(c, S)) <= BatchSize
       /\ \E keys \in Orderings(ScanBatch(c, S)) : OnData(c, keys)
       /\ unvisited' = [unvisited EXCEPT ![c] = @ \ S]
  /\ UNCHANGED <<store, pc, pattern, deletedCount, settled, result, error, logs,
                 nOther, nFail, store0, touched, removedBy>>
  /\ UNCHANGED <<nRescan, clientVars>>

\* One scan step of the stream and the 'data' event it raises.
ScanData(c) ==
  /\ pc[c] = "scanning"
  /\ \E S \in SUBSET unvisited[c] :
       /\ S # {}
       /\ Cardinality(ScanBatch(c, S)) <= BatchSize
       /\ \E keys \in Orderings(ScanBatch(c, S)) : OnData(c, keys)
       /\ unvisited' = [unvisited EXCEPT ![c] = @ \ S]
  /\ UNCHANGED <<store, pc, pattern, deletedCount, settled, result, error, logs,
                 nOther, nFail, store0, touched, removedBy>>
  /\ UNCHANGED <<nRescan, clientVars>>

\* A scan step that reports again a key of a slot the cursor covered in an
\* earlier step, and the 'data' event it raises: the handler takes the batch
\* as it comes.
ScanAgain(c) ==
  /\ pc[c] = "scanning"
  /\ nRescan < MaxRescan
  /\ \E k \in Keys \ unvisited[c] :
       /\ ScanBatch(c, {k}) # {}
       /\ OnData(c, <<k>>)
  /\ nRescan' = nRescan + 1
  /\ UNCHANGED <<store, pc, pattern, unvisited, deletedCount, settled, result,
                 error, logs, nOther, nFail, store0, touched, removedBy>>
  /\ UNCHANGED clientVars

\* A scan step that reports more keys than the count the stream was opened
\* with, which the store takes as a hint, and the 'data' event it raises: the
\* handler puts every key of the batch into one pipeline.
ScanBeyondCount(c) ==
  /\ pc[c] = "scanning"
  /\ \E S \in SUBSET unvisited[c] :
       /\ Cardinality(ScanBatch(c, S)) > BatchSize
       /\ \E keys \in Orderings(ScanBatch(c, S)) : OnData(c, keys)
       /\ unvisited' = [unvisited EXCEPT ![c] = @ \ S]
  /\ UNCHANGED <<store, pc, pattern, deletedCount, settled, result, error, logs,
                 nOther, nFail, store0, touched, removedBy>>
  /\ UNCHANGED <<nRescan, clientVars>>

\* The store's reply to one DEL of a pipeline: [err, count].
DelReply(k) ==
  [err |-> FALSE, isNum |-> TRUE, count |-> IF store[k] # Nil THEN 1 ELSE 0]
DelError == [err |-> TRUE, isNum |-> FALSE, count |-> 0]

\* StoreExecDel of a client that withdraws the commands of a call once the
\* call has failed.
StoreExecDelUnlessFailed(c, i) ==
  /\ i \in 1..Len(pipes[c])
  /\ pc[c] # "failed"
  /\ pipes[c][i].st = "sent"
  /\ Len(pipes[c][i].res) < Len(pipes[c][i].keys)
  /\ LET k == pipes[c][i].keys[Len(pipes[c][i].res) + 1] IN
       \/ /\ pipes' = [pipes EXCEPT ![c][i].res = Append(@, DelReply(k))]
          /\ store' = [store EXCEPT ![k] = Nil]
          /\ removedBy' = IF store[k] # Nil
               THEN [removedBy EXCEPT ![c] = @ \cup {<<i, Len(pipes[c][i].res) + 1>>}]
               ELSE removedBy
          /\ expires' = [expires EXCEPT ![k] = NoExpiry]
          /\ origin' = [origin EXCEPT ![k] = NoValue]
          /\ UNCHANGED nFail
          /\ UNCHANGED touched
       \/ /\ nFail < MaxFail
          /\ pipes' = [pipes EXCEPT ![c][i].res = Append(@, DelError)]
          /\ nFail' = nFail + 1
          /\ UNCHANGED <<store, touched, removedBy, expires, origin>>
  /\ UNCHANGED <<pc, pattern, unvisited, deletedCount, settled, result, error,
                 logs, nOther, store0, nRescan, now, conn, last, nOps,
                 logger>>

\* The store executes the next DEL of pipeline i of call c, or fails it.
StoreExecDel(c, i) ==
  /\ i \in 1..Len(pipes[c])
  /\ pipes[c][i].st = "sent"
  /\ Len(pipes[c][i].res) < Len(pipes[c][i].keys)
  /\ LET k == pipes[c][i].keys[Len(pipes[c][i].res) + 1] IN
       \/ /\ pipes' = [pipes EXCEPT ![c][i].res = Append(@, DelReply(k))]
          /\ store' = [store EXCEPT ![k] = Nil]
          /\ removedBy' = IF store[k] # Nil
               THEN [removedBy EXCEPT ![c] = @ \cup {<<i, Len(pipes[c][i].res) + 1>>}]
               ELSE removedBy
          /\ expires' = [expires EXCEPT ![k] = NoExpiry]
          /\ origin' = [origin EXCEPT ![k] = NoValue]
          /\ UNCHANGED nFail
          /\ UNCHANGED touched
       \/ /\ nFail < MaxFail
          /\ pipes' = [pipes EXCEPT ![c][i].res = Append(@, DelError)]
          /\ nFail' = nFail + 1
          /\ UNCHANGED <<store, touched, removedBy, expires, origin>>
  /\ UNCHANGED <<pc, pattern, unvisited, deletedCount, settled, result, error,
                 logs, nOther, store0, nRescan, now, conn, last, nOps,
                 logger>>

\* Counted that counts the key observed, whatever the store replied.
CountedObserved(r) == 1

\* Counted that takes a key back off the tally when its DEL found no entry.
CountedSigned(r) ==
  IF ~r.err /\ r.isNum THEN (IF r.count = 0 THEN -1 ELSE r.count) ELSE 0

\* results.forEach(([err, count]) => ...): what one reply adds to the tally.
Counted(r) == IF ~r.err /\ r.isNum THEN r.count ELSE 0

RECURSIVE SumCounted(_)
SumCounted(res) ==
  IF res = <<>> THEN 0 ELSE Counted(Head(res)) + SumCounted(Tail(res))

\* PipelineThen that assigns the batch's count to the tally instead of adding it.
PipelineThenOverwrites(c, i) ==
  /\ i \in 1..Len(pipes[c])
  /\ pipes[c][i].st = "sent"
  /\ Len(pipes[c][i].res) = Len(pipes[c][i].keys)
  /\ deletedCount' = [deletedCount EXCEPT ![c] = SumCounted(pipes[c][i].res)]
  /\ pipes' = [pipes EXCEPT ![c][i].st = "fulfilled"]
  /\ UNCHANGED <<store, pc, pattern, unvisited, settled, result, error, logs,
                 nOther, nFail, store0, touched, removedBy>>
  /\ UNCHANGED <<nRescan, clientVars>>

\* PipelineThen of a client that keeps one tally for all its delPattern calls:
\* the batch's count goes to every call in progress.
PipelineThenSharedTally(c, i) ==
  /\ i \in 1..Len(pipes[c])
  /\ pipes[c][i].st = "sent"
  /\ Len(pipes[c][i].res) = Len(pipes[c][i].keys)
  /\ deletedCount' = [d \in Calls |->
       IF d = c \/ pc[d] \in {"scanning", "draining"}
         THEN deletedCount[d] + SumCounted(pipes[c][i].res)
         ELSE deletedCount[d]]
  /\ pipes' = [pipes EXCEPT ![c][i].st = "fulfilled"]
  /\ UNCHANGED <<store, pc, pattern, unvisited, settled, result, error, logs,
                 nOther, nFail, store0, touched, removedBy>>
  /\ UNCHANGED <<nRescan, clientVars>>

\* PipelineThen that counts a batch only when none of its commands failed.
PipelineThenAllOrNothing(c, i) ==
  /\ i \in 1..Len(pipes[c])
  /\ pipes[c][i].st = "sent"
  /\ Len(pipes[c][i].res) = Len(pipes[c][i].keys)
  /\ deletedCount' = [deletedCount EXCEPT ![c] =
       IF \E j \in 1..Len(pipes[c][i].res) : pipes[c][i].res[j].err
         THEN @ ELSE @ + SumCounted(pipes[c][i].res)]
  /\ pipes' = [pipes EXCEPT ![c][i].st = "fulfilled"]
  /\ UNCHANGED <<store, pc, pattern, unvisited, settled, result, error, logs,
                 nOther, nFail, store0, touched, removedBy>>
  /\ UNCHANGED <<nRescan, clientVars>>

\* .then((results) => ...): the pipeline's replies arrived.
PipelineThen(c, i) ==
  /\ i \in 1..Len(pipes[c])
  /\ pipes[c][i].st = "sent"
  /\ Len(pipes[c][i].res) = Len(pipes[c][i].keys)
  /\ deletedCount' = [deletedCount EXCEPT ![c] = @ + SumCounted(pipes[c][i].res)]
  /\ pipes' = [pipes EXCEPT ![c][i].st = "fulfilled"]
  /\ UNCHANGED <<store, pc, pattern, unvisited, settled, result, error, logs,
                 nOther, nFail, store0, touched, removedBy>>
  /\ UNCHANGED <<nRescan, clientVars>>

\* PipelineCatch without the catch: the rejection reaches Promise.all and the
\* call rejects with the batch's error.
PipelineCatchAborts(c, i) ==
  /\ i \in 1..Len(pipes[c])
  /\ pipes[c][i].st = "sent"
  /\ nFail < MaxFail
  /\ nFail' = nFail + 1
  /\ pipes' = [pipes EXCEPT ![c][i].st = "rejected"]
  /\ IF settled[c] = "pending"
       THEN /\ settled' = [settled EXCEPT ![c] = "rejected"]
            /\ error' = [error EXCEPT ![c] = "pipeline error"]
       ELSE UNCHANGED <<settled, error>>
  /\ UNCHANGED <<store, pc, pattern, unvisited, deletedCount, result, logs,
                 nOther, store0, touched, removedBy>>
  /\ UNCHANGED <<nRescan, clientVars>>

\* PipelineCatch of a call that handles a failed batch-delete only from its
\* 'end' handler: after a scan error nothing takes the rejection.
PipelineCatchAtEnd(c, i) ==
  /\ i \in 1..Len(pipes[c])
  /\ pipes[c][i].st = "sent"
  /\ pc[c] \in {"draining", "done"}
  /\ nFail < MaxFail
  /\ nFail' = nFail + 1
  /\ logs' = logs \cup {LogEntry("error", "pipeline", c, i)}
  /\ pipes' = [pipes EXCEPT ![c][i].st = "rejected"]
  /\ UNCHANGED <<store, pc, pattern, unvisited, deletedCount, settled, result,
                 error, nOther, store0, touched, removedBy>>
  /\ UNCHANGED <<nRescan, clientVars>>

\* .catch((err) => ...): pipeline.exec() rejected, whatever part of the
\* pipeline the store had executed by then. The handler logs and the tracked
\* promise resolves ("rejected": the batch failed and was handled); if the
\* logger raises, the tracked promise rejects with what it raised ("threw").
PipelineCatch(c, i) ==
  /\ i \in 1..Len(pipes[c])
  /\ pipes[c][i].st = "sent"
  /\ nFail < MaxFail
  /\ nFail' = nFail + 1
  /\ IF logger = "works"
       THEN /\ logs' = logs \cup {LogEntry("error", "pipeline", c, i)}
            /\ pipes' = [pipes EXCEPT ![c][i].st = "rejected"]
       ELSE /\ UNCHANGED logs
            /\ pipes' = [pipes EXCEPT ![c][i].st = "threw"]
  /\ UNCHANGED <<store, pc, pattern, unvisited, deletedCount, settled, result,
                 error, nOther, store0, touched, removedBy>>
  /\ UNCHANGED <<nRescan, clientVars>>

\* AllSettled of a join that waits until every batch-delete has succeeded.
AllFulfilled(c) == \A i \in 1..Len(pipes[c]) : pipes[c][i].st = "fulfilled"

\* Promise.all(deletionPromises) has resolved: every tracked promise settled.
AllSettled(c) == \A i \in 1..Len(pipes[c]) : pipes[c][i].st # "sent"

\* Promise.all(deletionPromises) has rejected: a tracked promise rejected.
AnyThrew(c) == \E i \in 1..Len(pipes[c]) : pipes[c][i].st = "threw"

\* What a raising logger raises.
LoggerErr == "logger error"

\* OnEnd that does not await the tracked promises: it resolves with the tally
\* as it stands when the scan ends.
OnEndNoWait(c) ==
  /\ pc[c] = "scanning"
  /\ unvisited[c] = {}
  /\ pc' = [pc EXCEPT ![c] = "done"]
  /\ logs' = logs \cup {LogEntry("info", "deleted", c, deletedCount[c])}
  /\ settled' = [settled EXCEPT ![c] = "resolved"]
  /\ result' = [result EXCEPT ![c] = deletedCount[c]]
  /\ UNCHANGED <<store, pattern, unvisited, deletedCount, pipes, error, nOther,
                 nFail, store0, touched, removedBy>>
  /\ UNCHANGED <<nRescan, clientVars>>

\* stream.on('end'): the handler starts and awaits the tracked promises.
OnEnd(c) ==
  /\ pc[c] = "scanning"
  /\ unvisited[c] = {}
  /\ pc' = [pc EXCEPT ![c] = "draining"]
  /\ UNCHANGED <<store, pattern, unvisited, deletedCount, pipes, settled,
                 result, error, logs, nOther, nFail, store0, touched, removedBy>>
  /\ UNCHANGED <<nRescan, clientVars>>

\* Resolve that treats a tally of zero as a failure.
ResolveFailsOnZero(c) ==
  /\ pc[c] = "draining"
  /\ AllSettled(c)
  /\ pc' = [pc EXCEPT ![c] = "done"]
  /\ logs' = logs \cup {LogEntry("info", "deleted", c, deletedCount[c])}
  /\ IF settled[c] = "pending"
       THEN /\ settled' = [settled EXCEPT ![c] =
                            IF deletedCount[c] = 0 THEN "rejected" ELSE "resolved"]
            /\ result' = [result EXCEPT ![c] = deletedCount[c]]
            /\ error' = [error EXCEPT ![c] =
                            IF deletedCount[c] = 0 THEN "nothing deleted" ELSE NoErr]
       ELSE UNCHANGED <<settled, result, error>>
  /\ UNCHANGED <<store, pattern, unvisited, deletedCount, pipes, nOther,
                 nFail, store0, touched, removedBy>>
  /\ UNCHANGED <<nRescan, clientVars>>

\* The rest of the 'end' handler: log and resolve(deletedCount); what
\* Promise.all rejected with or the logger raised is caught and the call is
\* rejected with it.
Resolve(c) ==
  /\ pc[c] = "draining"
  /\ AllSettled(c) \/ AnyThrew(c)
  /\ IF ~AnyThrew(c) /\ logger = "works"
       THEN /\ pc' = [pc EXCEPT ![c] = "done"]
            /\ logs' = logs \cup {LogEntry("info", "deleted", c, deletedCount[c])}
            /\ IF settled[c] = "pending"
                 THEN /\ settled' = [settled EXCEPT ![c] = "resolved"]
                      /\ result' = [result EXCEPT ![c] = deletedCount[c]]
                 ELSE UNCHANGED <<settled, result>>
            /\ UNCHANGED error
       ELSE /\ pc' = [pc EXCEPT ![c] = "failed"]
            /\ IF settled[c] = "pending"
                 THEN /\ settled' = [settled EXCEPT ![c] = "rejected"]
                      /\ error' = [error EXCEPT ![c] = LoggerErr]
                 ELSE UNCHANGED <<settled, error>>
            /\ UNCHANGED <<logs, result>>
  /\ UNCHANGED <<store, pattern, unvisited, deletedCount, pipes, nOther,
                 nFail, store0, touched, removedBy>>
  /\ UNCHANGED <<nRescan, clientVars>>

\* OnScanError that reports what was deleted so far instead of failing.
OnScanErrorResolves(c) ==
  /\ pc[c] = "scanning"
  /\ unvisited[c] # {}
  /\ pc' = [pc EXCEPT ![c] = "failed"]
  /\ logs' = logs \cup {LogEntry("error", "scan", c, 0)}
  /\ IF settled[c] = "pending"
       THEN /\ settled' = [settled EXCEPT ![c] = "resolved"]
            /\ result' = [result EXCEPT ![c] = deletedCount[c]]
       ELSE UNCHANGED <<settled, result>>
  /\ UNCHANGED <<store, pattern, unvisited, deletedCount, pipes, error, nOther,
                 nFail, store0, touched, removedBy>>
  /\ UNCHANGED <<nRescan, clientVars>>

\* OnScanError of a stream that reports an error after its end as well: the
\* handler fails a call whose 'end' handler is awaiting the batch-deletes.
OnScanErrorAfterEnd(c) ==
  /\ pc[c] \in {"scanning", "draining"}
  /\ pc[c] = "scanning" => unvisited[c] # {}
  /\ pc' = [pc EXCEPT ![c] = "failed"]
  /\ IF logger = "works"
       THEN /\ logs' = logs \cup {LogEntry("error", "scan", c, 0)}
            /\ IF settled[c] = "pending"
                 THEN /\ settled' = [settled EXCEPT ![c] = "rejected"]
                      /\ error' = [error EXCEPT ![c] = ScanErr]
                 ELSE UNCHANGED <<settled, error>>
       ELSE UNCHANGED <<logs, settled, error>>
  /\ UNCHANGED <<store, pattern, unvisited, deletedCount, pipes, result, nOther,
                 nFail, store0, touched, removedBy>>
  /\ UNCHANGED <<nRescan, clientVars>>

\* stream.on('error'): a scan command failed; log and reject(error). What the
\* logger raises leaves the handler before reject is reached: the promise
\* stays pending.
OnScanError(c) ==
  /\ pc[c] = "scanning"
  /\ unvisited[c] # {}
  /\ pc' = [pc EXCEPT ![c] = "failed"]
  /\ IF logger = "works"
       THEN /\ logs' = logs \cup {LogEntry("error", "scan", c, 0)}
            /\ IF settled[c] = "pending"
                 THEN /\ settled' = [settled EXCEPT ![c] = "rejected"]
                      /\ error' = [error EXCEPT ![c] = ScanErr]
                 ELSE UNCHANGED <<settled, error>>
       ELSE UNCHANGED <<logs, settled, error>>
  /\ UNCHANGED <<store, pattern, unvisited, deletedCount, pipes, result, nOther,
                 nFail, store0, touched, removedBy>>
  /\ UNCHANGED <<nRescan, clientVars>>

\* ------------------------------------------------------------ other actors
\* Another client writes a key.
OtherSet(k, d) ==
  /\ nOther < MaxOther
  /\ nOther' = nOther + 1
  /\ store' = [store EXCEPT ![k] = d]
  /\ expires' = [expires EXCEPT ![k] = NoExpiry]
  /\ origin' = [origin EXCEPT ![k] = NoValue]
  /\ touched' = Touch(k)
  /\ UNCHANGED <<pc, pattern, unvisited, deletedCount, pipes, settled, result,
                 error, logs, nFail, store0, removedBy, nRescan, now, conn, last, nOps,
                 logger>>

\* Another client deletes a key, or the key expires.
OtherDel(k) ==
  /\ nOther < MaxOther
  /\ store[k] # Nil
  /\ nOther' = nOther + 1
  /\ store' = [store EXCEPT ![k] = Nil]
  /\ expires' = [expires EXCEPT ![k] = NoExpiry]
  /\ origin' = [origin EXCEPT ![k] = NoValue]
  /\ touched' = Touch(k)
  /\ UNCHANGED <<pc, pattern, unvisited, deletedCount, pipes, settled, result,
                 error, logs, nFail, store0, removedBy, nRescan, now, conn, last, nOps,
                 logger>>

\* ------------------------------------------------- get, set, del, clear
\* The store call of a key-value operation rejects: the connection is closed,
\* or the command fails.
StoreRejects ==
  /\ conn = "closed" \/ nFail < MaxFail
  /\ nFail' = IF conn = "open" THEN nFail + 1 ELSE nFail

\* The store call resolves.
StoreAnswers == conn = "open" /\ UNCHANGED nFail

\* The keys that hold an entry.
Held == {k \in Keys : store[k] # Nil}

\* The call the client completes in this step.
Call(op, key) == [op |-> op, key |-> key]

\* What the call gave its caller: it returned ret, or it raised; caught tells
\* what its catch block caught: nothing, the rejection of the store call
\* ("store"), or what JSON.parse threw ("parse").
Outcome(ret, caught, raised) == [ret |-> ret, caught |-> caught, raised |-> raised]

\* catch (error) { this.logger.error(...); return ...; }: the catch block of a
\* key-value operation that caught `what`. What the logger raises there is
\* raised to the caller.
Catch(op, key, ret, what) ==
  IF logger = "works"
    THEN /\ logs' = logs \cup {LogEntry("error", op, 0, nOps + 1)}
         /\ last' = Call(op, key) @@ Outcome(ret, what, FALSE)
    ELSE /\ UNCHANGED logs
         /\ last' = Call(op, key) @@ Outcome(Void, what, TRUE)

\* GetCall with JSON.parse outside the try block: what it throws reaches the
\* caller.
GetCallParseUncaught(k) ==
  /\ nOps < MaxOps
  /\ nOps' = nOps + 1
  /\ \/ /\ StoreAnswers
        /\ IF NotData(store[k])
             THEN last' = Call("get", k) @@ Outcome(Null, "nothing", FALSE)
             ELSE IF JsonParse(store[k]) = SyntaxError
               THEN last' = Call("get", k) @@ Outcome(Void, "nothing", TRUE)
               ELSE last' = Call("get", k)
                              @@ Outcome(JsonParse(store[k]), "nothing", FALSE)
        /\ UNCHANGED logs
     \/ /\ StoreRejects
        /\ Catch("get", k, Null, "store")
  /\ UNCHANGED <<store, expires, now, conn, origin>>
  /\ UNCHANGED <<pc, pattern, unvisited, deletedCount, pipes, settled, result,
                 error, nOther, store0, touched, removedBy, nRescan, logger>>

\* GetCall that drops an entry it cannot decode.
GetCallDropsBad(k) ==
  /\ nOps < MaxOps
  /\ nOps' = nOps + 1
  /\ \/ /\ StoreAnswers
        /\ IF NotData(store[k])
             THEN /\ last' = Call("get", k) @@ Outcome(Null, "nothing", FALSE)
                  /\ UNCHANGED <<logs, store, expires>>
             ELSE IF JsonParse(store[k]) = SyntaxError
               THEN /\ Catch("get", k, Null, "parse")
                    /\ store' = [store EXCEPT ![k] = Nil]
                    /\ expires' = [expires EXCEPT ![k] = NoExpiry]
               ELSE /\ last' = Call("get", k)
                                 @@ Outcome(JsonParse(store[k]), "nothing", FALSE)
                    /\ UNCHANGED <<logs, store, expires>>
     \/ /\ StoreRejects
        /\ Catch("get", k, Null, "store")
        /\ UNCHANGED <<store, expires>>
  /\ UNCHANGED <<now, conn, origin>>
  /\ UNCHANGED <<pc, pattern, unvisited, deletedCount, pipes, settled, result,
                 error, nOther, store0, touched, removedBy, nRescan, logger>>

\* get(key).
GetCall(k) ==
  /\ nOps < MaxOps
  /\ nOps' = nOps + 1
  /\ \/ /\ StoreAnswers
        /\ IF NotData(store[k])
             THEN /\ last' = Call("get", k) @@ Outcome(Null, "nothing", FALSE)
                  /\ UNCHANGED logs
             ELSE IF JsonParse(store[k]) = SyntaxError
               THEN Catch("get", k, Null, "parse")
               ELSE /\ last' = Call("get", k)
                                 @@ Outcome(JsonParse(store[k]), "nothing", FALSE)
                    /\ UNCHANGED logs
     \/ /\ StoreRejects
        /\ Catch("get", k, Null, "store")
  /\ UNCHANGED <<store, expires, now, conn, origin>>
  /\ UNCHANGED <<pc, pattern, unvisited, deletedCount, pipes, settled, result,
                 error, nOther, store0, touched, removedBy, nRescan, logger>>

\* History of a set the store applied: the value, the time, the ttl argument,
\* and whether it overwrote an entry an earlier set of the client had written.
SetRecord(k, v, ttl) ==
  [t |-> "set", v |-> v, at |-> now, ttl |-> ttl,
   over |-> (origin[k] # NoValue /\ store[k] # Nil)]

\* SetCall that keeps the time-to-live of the entry it overwrites when it is
\* given none (SET ... KEEPTTL).
SetCallKeepsTtl(k, v, ttl) ==
  /\ nOps < MaxOps
  /\ nOps' = nOps + 1
  /\ \/ /\ StoreAnswers
        /\ store' = [store EXCEPT ![k] = JsonStringify(v)]
        /\ expires' = [expires EXCEPT ![k] =
                         IF Truthy(ttl) THEN now + ttl[1] ELSE expires[k]]
        /\ touched' = Touch(k)
        /\ origin' = [origin EXCEPT ![k] = SetRecord(k, v, ttl)]
        /\ last' = Call("set", k) @@ Outcome(Void, "nothing", FALSE)
        /\ UNCHANGED logs
     \/ /\ StoreRejects
        /\ Catch("set", k, Void, "store")
        /\ UNCHANGED <<store, expires, origin, touched>>
  /\ UNCHANGED <<now, conn>>
  /\ UNCHANGED <<pc, pattern, unvisited, deletedCount, pipes, settled, result,
                 error, nOther, store0, removedBy, nRescan, logger>>

\* set(key, value, ttl).
SetCall(k, v, ttl) ==
  /\ nOps < MaxOps
  /\ nOps' = nOps + 1
  /\ \/ /\ StoreAnswers
        /\ store' = [store EXCEPT ![k] = JsonStringify(v)]
        /\ expires' = [expires EXCEPT ![k] =
                         IF Truthy(ttl) THEN now + ttl[1] ELSE NoExpiry]
        /\ touched' = Touch(k)
        /\ origin' = [origin EXCEPT ![k] = SetRecord(k, v, ttl)]
        /\ last' = Call("set", k) @@ Outcome(Void, "nothing", FALSE)
        /\ UNCHANGED logs
     \/ /\ StoreRejects
        /\ Catch("set", k, Void, "store")
        /\ UNCHANGED <<store, expires, origin, touched>>
  /\ UNCHANGED <<now, conn>>
  /\ UNCHANGED <<pc, pattern, unvisited, deletedCount, pipes, settled, result,
                 error, nOther, store0, removedBy, nRescan, logger>>

\* DelCall without its try block: the rejection of client.del reaches the
\* caller and nothing is logged.
DelCallNoCatch(k) ==
  /\ nOps < MaxOps
  /\ nOps' = nOps + 1
  /\ \/ /\ StoreAnswers
        /\ store' = [store EXCEPT ![k] = Nil]
        /\ expires' = [expires EXCEPT ![k] = NoExpiry]
        /\ touched' = Touch(k)
        /\ origin' = [origin EXCEPT ![k] = NoValue]
        /\ last' = Call("del", k) @@ Outcome(Void, "nothing", FALSE)
                     @@ [had |-> store[k]]
     \/ /\ StoreRejects
        /\ last' = Call("del", k) @@ Outcome(Void, "nothing", TRUE)
        /\ UNCHANGED <<store, expires, origin, touched>>
  /\ UNCHANGED <<now, conn, logs>>
  /\ UNCHANGED <<pc, pattern, unvisited, deletedCount, pipes, settled, result,
                 error, nOther, store0, removedBy, nRescan, logger>>

\* DelCall that removes by pattern: every key that starts as key does.
DelCallByPrefix(k) ==
  /\ nOps < MaxOps
  /\ nOps' = nOps + 1
  /\ \/ /\ StoreAnswers
        /\ store' = [j \in Keys |-> IF Head(j) = Head(k) THEN Nil ELSE store[j]]
        /\ expires' = [j \in Keys |-> IF Head(j) = Head(k) THEN NoExpiry ELSE expires[j]]
        /\ touched' = Touch(k)
        /\ origin' = [j \in Keys |-> IF Head(j) = Head(k) THEN NoValue ELSE origin[j]]
        /\ last' = Call("del", k) @@ Outcome(Void, "nothing", FALSE)
                     @@ [had |-> store[k]]
        /\ UNCHANGED logs
     \/ /\ StoreRejects
        /\ Catch("del", k, Void, "store")
        /\ UNCHANGED <<store, expires, origin, touched>>
  /\ UNCHANGED <<now, conn>>
  /\ UNCHANGED <<pc, pattern, unvisited, deletedCount, pipes, settled, result,
                 error, nOther, store0, removedBy, nRescan, logger>>

\* DelCall of a client that keeps one deletion tally for all its operations:
\* the entry del removes is added to the tally of the delPattern call in flight.
DelCallCounted(k) ==
  /\ nOps < MaxOps
  /\ nOps' = nOps + 1
  /\ \/ /\ StoreAnswers
        /\ store' = [store EXCEPT ![k] = Nil]
        /\ expires' = [expires EXCEPT ![k] = NoExpiry]
        /\ touched' = Touch(k)
        /\ deletedCount' = [deletedCount EXCEPT ![1] = @ + (IF store[k] # Nil THEN 1 ELSE 0)]
        /\ origin' = [origin EXCEPT ![k] = NoValue]
        /\ last' = Call("del", k) @@ Outcome(Void, "nothing", FALSE)
                     @@ [had |-> store[k]]
        /\ UNCHANGED logs
     \/ /\ StoreRejects
        /\ Catch("del", k, Void, "store")
        /\ UNCHANGED <<store, expires, origin, touched, deletedCount>>
  /\ UNCHANGED <<now, conn>>
  /\ UNCHANGED <<pc, pattern, unvisited, pipes, settled, result,
                 error, nOther, store0, removedBy, nRescan, logger>>

\* del(key).
DelCall(k) ==
  /\ nOps < MaxOps
  /\ nOps' = nOps + 1
  /\ \/ /\ StoreAnswers
        /\ store' = [store EXCEPT ![k] = Nil]
        /\ expires' = [expires EXCEPT ![k] = NoExpiry]
        /\ touched' = Touch(k)
        /\ origin' = [origin EXCEPT ![k] = NoValue]
        /\ last' = Call("del", k) @@ Outcome(Void, "nothing", FALSE)
                     @@ [had |-> store[k]]
        /\ UNCHANGED logs
     \/ /\ StoreRejects
        /\ Catch("del", k, Void, "store")
        /\ UNCHANGED <<store, expires, origin, touched>>
  /\ UNCHANGED <<now, conn>>
  /\ UNCHANGED <<pc, pattern, unvisited, deletedCount, pipes, settled, result,
                 error, nOther, store0, removedBy, nRescan, logger>>

\* ClearCall that removes the keys of one prefix instead of flushing the store.
ClearCallUserKeys ==
  /\ nOps < MaxOps
  /\ nOps' = nOps + 1
  /\ \/ /\ StoreAnswers
        /\ store' = [k \in Keys |-> IF GlobMatch(P_user, k) THEN Nil ELSE store[k]]
        /\ expires' = [k \in Keys |-> IF GlobMatch(P_user, k) THEN NoExpiry ELSE expires[k]]
        /\ touched' = TouchAll
        /\ origin' = [k \in Keys |-> IF GlobMatch(P_user, k) THEN NoValue ELSE origin[k]]
        /\ last' = Call("clear", <<>>) @@ Outcome(Void, "nothing", FALSE)
                     @@ [held |-> Held]
        /\ UNCHANGED logs
     \/ /\ StoreRejects
        /\ Catch("clear", <<>>, Void, "store")
        /\ UNCHANGED <<store, expires, origin, touched>>
  /\ UNCHANGED <<now, conn>>
  /\ UNCHANGED <<pc, pattern, unvisited, deletedCount, pipes, settled, result,
                 error, nOther, store0, removedBy, nRescan, logger>>

\* clear().
ClearCall ==
  /\ nOps < MaxOps
  /\ nOps' = nOps + 1
  /\ \/ /\ StoreAnswers
        /\ store' = EmptyStore
        /\ expires' = [k \in Keys |-> NoExpiry]
        /\ touched' = TouchAll
        /\ origin' = [k \in Keys |-> NoValue]
        /\ last' = Call("clear", <<>>) @@ Outcome(Void, "nothing", FALSE)
                     @@ [held |-> Held]
        /\ UNCHANGED logs
     \/ /\ StoreRejects
        /\ Catch("clear", <<>>, Void, "store")
        /\ UNCHANGED <<store, expires, origin, touched>>
  /\ UNCHANGED <<now, conn>>
  /\ UNCHANGED <<pc, pattern, unvisited, deletedCount, pipes, settled, result,
                 error, nOther, store0, removedBy, nRescan, logger>>

\* disconnect(): client.quit() is awaited outside any try block, so its
\* rejection is the call's.
DisconnectCall ==
  /\ nOps < MaxOps
  /\ nOps' = nOps + 1
  /\ \/ /\ StoreAnswers
        /\ conn' = "closed"
        /\ last' = Call("disconnect", <<>>) @@ Outcome(Void, "nothing", FALSE)
     \/ /\ StoreRejects
        /\ last' = Call("disconnect", <<>>) @@ Outcome(Void, "nothing", TRUE)
        /\ UNCHANGED conn
  /\ UNCHANGED <<store, expires, now, origin, logs>>
  /\ UNCHANGED <<pc, pattern, unvisited, deletedCount, pipes, settled, result,
                 error, nOther, store0, touched, removedBy, nRescan, logger>>

\* A second passes on the store's clock; the entries whose time has come expire.
Tick ==
  /\ now < MaxTime
  /\ now' = now + 1
  /\ store' = [k \in Keys |->
       IF expires[k] # NoExpiry /\ expires[k] <= now + 1 THEN Nil ELSE store[k]]
  /\ expires' = [k \in Keys |->
       IF expires[k] # NoExpiry /\ expires[k] <= now + 1 THEN NoExpiry ELSE expires[k]]
  /\ UNCHANGED <<conn, last, origin, nOps, logs, nFail>>
  /\ UNCHANGED <<pc, pattern, unvisited, deletedCount, pipes, settled, result,
                 error, nOther, store0, touched, removedBy, nRescan, logger>>

\* The injected logger starts to raise from its methods.
LoggerBreaks ==
  /\ logger = "works"
  /\ logger' = "raises"
  /\ UNCHANGED <<store, pc, pattern, unvisited, deletedCount, pipes, settled,
                 result, error, logs, nOther, nFail, store0, touched, removedBy,
                 nRescan, expires, now, conn, last, origin, nOps>>

\* The caller calls delPattern(p).
DelPattern(p) == StartCall(1, p)

\* The caller, having awaited the first call's count, calls delPattern again
\* with the same pattern.
DelPatternAgain ==
  /\ settled[1] = "resolved"
  /\ StartCall(2, pattern[1])

\* The caller calls delPattern(p) a second time without awaiting the first
\* call: both calls are made before the store has answered anything.
DelPatternToo(p) ==
  /\ pc[1] = "scanning"
  /\ unvisited[1] = Keys
  /\ StartCall(2, p)

\* The steps of the delPattern calls in progress and of the store serving them.
CallNext ==
  \/ \E c \in Calls : ScanData(c)
  \/ \E c \in Calls, i \in 1..MaxPipes : StoreExecDel(c, i)
  \/ \E c \in Calls, i \in 1..MaxPipes : PipelineThen(c, i)
  \/ \E c \in Calls, i \in 1..MaxPipes : PipelineCatch(c, i)
  \/ \E c \in Calls : OnEnd(c)
  \/ \E c \in Calls : Resolve(c)
  \/ \E c \in Calls : OnScanError(c)

Next ==
  \/ \E p \in Patterns : DelPattern(p)
  \/ CallNext
  \/ \E k \in Keys, d \in Data : OtherSet(k, d)
  \/ \E k \in Keys : OtherDel(k)

\* One delPattern call on a store shared with other actors.
Spec == Init /\ [][Next]_vars

\* A caller that is the store's only writer and calls delPattern twice.
NextTwice ==
  \/ \E p \in Patterns : DelPattern(p)
  \/ DelPatternAgain
  \/ CallNext

SpecTwice == Init /\ [][NextTwice]_vars

\* One delPattern call on a store whose scan may report a key in more than one
\* step, while another client sets keys.
NextRescan ==
  \/ \E p \in Patterns : DelPattern(p)
  \/ CallNext
  \/ \E c \in Calls : ScanAgain(c)
  \/ \E k \in Keys : OtherSet(k, D_id2)

SpecRescan == Init /\ [][NextRescan]_vars

\* The key-value operations of one client on a store whose clock runs and
\* under whose keys other clients leave bytes of their own.
NextKV ==
  \/ \E k \in ClientKeys : GetCall(k)
  \/ \E k \in ClientKeys, v \in Values, ttl \in Ttls : SetCall(k, v, ttl)
  \/ \E k \in ClientKeys : DelCall(k)
  \/ ClearCall
  \/ DisconnectCall
  \/ Tick
  \/ \E k \in ClientKeys, d \in Bytes \ Data : OtherSet(k, d)

SpecKV == Init /\ [][NextKV]_vars

\* One delPattern call of a caller that is the store's only writer.
NextLive ==
  \/ \E p \in Patterns : DelPattern(p)
  \/ CallNext

\* The store answers every command it was sent: the scan goes on until it has
\* ended or failed, and every DEL of an issued pipeline is executed or failed.
StoreAnswersAll ==
  /\ WF_vars(ScanData(1))
  /\ \A i \in 1..MaxPipes : WF_vars(StoreExecDel(1, i))

\* The event loop runs every handler whose event or promise is due.
HandlersRun ==
  /\ WF_vars(OnEnd(1))
  /\ WF_vars(Resolve(1))
  /\ \A i \in 1..MaxPipes : WF_vars(PipelineThen(1, i))

SpecLive == Init /\ [][NextLive]_vars /\ StoreAnswersAll /\ HandlersRun

\* The caller makes get, set and del calls while its delPattern call is in
\* flight.
DuringCall == pc[1] \in {"scanning", "draining"} /\ nOps < MaxDuring

NextMixed ==
  \/ \E p \in Patterns : DelPattern(p)
  \/ CallNext
  \/ \E k \in ClientKeys : DuringCall /\ GetCall(k)
  \/ \E k \in ClientKeys : DuringCall /\ SetCall(k, V_zero, <<>>)
  \/ \E k \in ClientKeys : DuringCall /\ DelCall(k)

SpecMixed == Init /\ [][NextMixed]_vars

\* Two delPattern calls with overlapping patterns in flight at once on one
\* client that is the store's only writer; the scans do not fail, batch-deletes
\* may.
NextPair ==
  \/ DelPattern(P_user)
  \/ \E p \in Overlapping : DelPatternToo(p)
  \/ \E c \in Calls : ScanData(c)
  \/ \E c \in Calls, i \in 1..MaxPipes : StoreExecDel(c, i)
  \/ \E c \in Calls, i \in 1..MaxPipes : PipelineThen(c, i)
  \/ \E c \in Calls, i \in 1..MaxPipes : PipelineCatch(c, i)
  \/ \E c \in Calls : OnEnd(c)
  \/ \E c \in Calls : Resolve(c)

SpecPair == Init /\ [][NextPair]_vars

\* One delPattern call on a store whose scan steps may report more keys than
\* the count asked for.
NextHint ==
  \/ \E p \in Patterns : DelPattern(p)
  \/ CallNext
  \/ \E c \in Calls : ScanBeyondCount(c)

SpecHint == Init /\ [][NextHint]_vars

\* A client whose logger may start to raise: its caller makes key-value calls
\* and then one delPattern call.
NextLogger ==
  \/ \E p \in Patterns : DelPattern(p)
  \/ CallNext
  \/ LoggerBreaks
  \/ \E k \in ClientKeys : pc[1] = "idle" /\ GetCall(k)
  \/ \E k \in ClientKeys : pc[1] = "idle" /\ SetCall(k, V_zero, <<>>)
  \/ \E k \in ClientKeys : pc[1] = "idle" /\ DelCall(k)
  \/ pc[1] = "idle" /\ ClearCall

SpecLogger == Init /\ [][NextLogger]_vars

\* ------------------------------------------------------------ vocabulary
\* The pipelines of call c.
Batches(c) == 1..Len(pipes[c])

\* Pipeline i of call c is in flight: issued, and neither acknowledged nor failed.
InFlight(c, i) == pipes[c][i].st = "sent"

\* A DEL of pipeline i of call c came back with an error.
HasCommandError(c, i) ==
  \E j \in 1..Len(pipes[c][i].res) : pipes[c][i].res[j].err

\* The delete of key k by call c failed: its pipeline's exec was rejected, or
\* its DEL came back with an error.
DeleteFailed(c, k) ==
  \E i \in Batches(c) : \E j \in 1..Len(pipes[c][i].keys) :
    /\ pipes[c][i].keys[j] = k
    /\ \/ pipes[c][i].st = "rejected"
       \/ j <= Len(pipes[c][i].res) /\ pipes[c][i].res[j].err

\* No batch-delete of call c failed, as a whole or in one of its commands.
NoBatchFailure(c) ==
  \A i \in Batches(c) : pipes[c][i].st # "rejected" /\ ~HasCommandError(c, i)

\* The keys that existed and matched the pattern when call c started.
MatchedAtStart(c) ==
  {k \in Keys : store0[c][k] # Nil /\ GlobMatch(pattern[c], k)}

\* What the store acknowledged to call c: the entries removed by the commands
\* of its acknowledged pipelines.
AckedDeletions(c) ==
  Cardinality({x \in removedBy[c] : pipes[c][x[1]].st = "fulfilled"})

\* The keys call c submitted for deletion, over all its pipelines.
RECURSIVE Submitted(_, _)
Submitted(c, n) ==
  IF n = 0 THEN 0 ELSE Len(pipes[c][n].keys) + Submitted(c, n - 1)

\* The delete count pipeline i of call c was answered with.
BatchCount(c, i) ==
  Cardinality({j \in 1..Len(pipes[c][i].res) :
                 ~pipes[c][i].res[j].err /\ pipes[c][i].res[j].count = 1})

\* The counts of the first n pipelines of call c, a failed pipeline counting 0.
RECURSIVE SumOfOthers(_, _)
SumOfOthers(c, n) ==
  IF n = 0 THEN 0
  ELSE (IF pipes[c][n].st = "rejected" THEN 0 ELSE BatchCount(c, n))
       + SumOfOthers(c, n - 1)

\* ----------------------------------------------------------------- claims
\* C1: when the delPattern promise has resolved with a count, no pipeline exec
\* the call issued is still in flight.
Thm_C1 ==
  \A c \in Calls :
    settled[c] = "resolved" => \A i \in Batches(c) : ~InFlight(c, i)

\* C1's case: a call that issued several batch-deletes has resolved.
Wit_C1 == \E c \in Calls : settled[c] = "resolved" /\ Len(pipes[c]) >= 2

Thm_C3 ==
  \A c \in Calls : settled[c] = "resolved" => result[c] = AckedDeletions(c)

\* C3's case: the scan observed a key that was gone when its delete executed,
\* so the count is below the number of keys observed.
Wit_C3 ==
  \E c \in Calls :
    /\ settled[c] = "resolved"
    /\ NoBatchFailure(c)
    /\ result[c] >= 1
    /\ result[c] < Submitted(c, Len(pipes[c]))

\* C4: a call whose scan reported an error has rejected with that error; it
\* has not resolved with a count.
Thm_C4 ==
  \A c \in Calls :
    pc[c] = "failed" =>
      /\ settled[c] = "rejected"
      /\ error[c] = ScanErr
      /\ LogEntry("error", "scan", c, 0) \in logs

\* C4's case: the scan failed after batch-deletes were issued and counted.
Wit_C4 ==
  \E c \in Calls :
    pc[c] = "failed" /\ Len(pipes[c]) >= 1 /\ deletedCount[c] >= 1

\* C5: a failed batch-delete is logged and adds nothing; the other batches are
\* summed in full, the call resolves with that sum and is not made to fail.
Thm_C5 ==
  \A c \in Calls :
    /\ \A i \in Batches(c) :
         pipes[c][i].st = "rejected" => LogEntry("error", "pipeline", c, i) \in logs
    /\ settled[c] = "resolved" => result[c] = SumOfOthers(c, Len(pipes[c]))
    /\ settled[c] = "rejected" => pc[c] = "failed"
    /\ pc[c] = "draining" /\ AllSettled(c) => ENABLED Resolve(c)

\* C5's case: a call with a failed batch-delete resolved with the count of
\* another batch.
Wit_C5 ==
  \E c \in Calls :
    /\ settled[c] = "resolved"
    /\ \E i \in Batches(c) : pipes[c][i].st = "rejected"
    /\ result[c] >= 1

\* Call c resolves in this step.
ResolvesNow(c) == settled[c] = "pending" /\ settled'[c] = "resolved"

\* Another actor wrote a key matching call c's pattern since the call started.
MatchingTouched(c) == touched[c] \cap Matching(pattern[c])

\* C6: delPattern(P) leaves the keys that do not match P as they were when the
\* call started: present with the same value, or absent, unless another actor
\* wrote them.
Thm_C6 ==
  \A c \in Started :
    \A k \in Keys \ touched[c] :
      ~GlobMatch(pattern[c], k) => store[k] = store0[c][k]

\* C6's case: a call that deleted keys has resolved and a key that does not
\* match its pattern is still there with its value.
Wit_C6 ==
  \E c \in Calls :
    /\ settled[c] = "resolved"
    /\ result[c] >= 1
    /\ \E k \in Keys \ touched[c] :
         ~GlobMatch(pattern[c], k) /\ store[k] # Nil /\ store[k] = store0[c][k]

\* C7 as stated: a call whose pattern matched no key when it started does not
\* fail, and resolves with 0.
Orig_C7 ==
  \A c \in Started :
    MatchedAtStart(c) = {} =>
      /\ settled[c] # "rejected"
      /\ settled[c] = "resolved" => result[c] = 0

\* C7, amended: such a call fails only when its scan reports an error, and
\* resolves with 0 when no other actor wrote a matching key meanwhile.
Thm_C7 ==
  \A c \in Started :
    MatchedAtStart(c) = {} /\ MatchingTouched(c) = {} =>
      /\ settled[c] = "rejected" => pc[c] = "failed"
      /\ settled[c] = "resolved" => result[c] = 0
      /\ pc[c] = "draining" => ENABLED Resolve(c)

\* C7's case: a call on a keyspace that is not empty, none of whose keys
\* matched the pattern, resolved with 0.
Wit_C7 ==
  \E c \in Calls :
    /\ settled[c] = "resolved"
    /\ result[c] = 0
    /\ MatchedAtStart(c) = {}
    /\ \E k \in Keys : store0[c][k] # Nil

Observed(c) ==
  {k \in Keys : \E i \in Batches(c) : \E j \in 1..Len(pipes[c][i].keys) :
                  pipes[c][i].keys[j] = k}

\* The pipelines of call c that hold a DEL of key k.
BatchesOf(c, k) ==
  {i \in Batches(c) : \E j \in 1..Len(pipes[c][i].keys) : pipes[c][i].keys[j] = k}

\* C11 as stated: the count delPattern returns never exceeds the number of
\* keys its scan found matching, also when the scan reports a key in more than
\* one batch and other actors write matching keys meanwhile.
Orig_C11 ==
  \A c \in Calls :
    settled[c] = "resolved" => result[c] <= Cardinality(Observed(c))

\* C12 as stated: each key appears in at most one batch-delete of a call, also
\* when the scan reports the key in more than one scan step.
Orig_C12 ==
  \A c \in Calls : \A k \in Keys : Cardinality(BatchesOf(c, k)) <= 1

\* The client completes a call of operation op in this step.
CallStep(op) == nOps' = nOps + 1 /\ last'.op = op

\* The client completes op(k) in this step.
KeyStep(op, k) == CallStep(op) /\ last'.key = k

\* The call completed in this step logged its failure.
LoggedNow == LogEntry("error", last'.op, 0, nOps') \in logs' \ logs

\* C13: get, set, del and clear never raise; when the store call fails (the
\* store is unreachable or the command fails) get returns null, the others
\* return normally, and the failure is logged.
Thm_C13 ==
  last.op \in {"get", "set", "del", "clear"} =>
    /\ ~last.raised
    /\ last.caught = "store" =>
         /\ last.ret = IF last.op = "get" THEN Null ELSE Void
         /\ LogEntry("error", last.op, 0, nOps) \in logs

\* C13's case: a call on a closed connection failed softly, on a key that
\* holds an entry.
Wit_C13 ==
  /\ last.op \in {"get", "del"}
  /\ conn = "closed"
  /\ last.caught = "store"
  /\ store[last.key] = D_id1

\* The stored bytes exist and JSON.parse throws on them.
Undecodable(data) == data # Nil /\ JsonParse(data) = SyntaxError

Live(k) ==
  /\ origin[k] # NoValue
  /\ Truthy(origin[k].ttl) => now < origin[k].at + origin[k].ttl[1]

Orig_C16 ==
  [][\A k \in ClientKeys :
       KeyStep("get", k) /\ last'.caught # "store"
         /\ origin[k] # NoValue /\ origin[k].ttl # <<>> =>
           /\ now - origin[k].at < origin[k].ttl[1] => last'.ret = origin[k].v
           /\ now - origin[k].at > origin[k].ttl[1] => last'.ret = Null]_vars

\* C17 as stated: a set the store applies writes the entry with the given
\* time-to-live whenever ttl is given, and without expiration exactly when
\* ttl is omitted.
Orig_C17 ==
  [][\A k \in ClientKeys :
       KeyStep("set", k) /\ last'.caught # "store" =>
         /\ origin'[k].ttl # <<>> => expires'[k] = now + origin'[k].ttl[1]
         /\ origin'[k].ttl = <<>> <=> expires'[k] = NoExpiry]_vars

\* C18: once del(k) has completed with the store's answer, get(k) returns
\* absent, whether or not k held an entry; every other key keeps its entry
\* and its expiration.
Thm_C18 ==
  [][\A k \in ClientKeys :
       KeyStep("del", k) /\ last'.caught # "store" =>
         /\ Get(store', k) = Null
         /\ \A j \in Keys \ {k} : store'[j] = store[j] /\ expires'[j] = expires[j]]_vars

\* C18's case: del removed the entry of a key and another key still holds its
\* entry.
Wit_C18 ==
  /\ last.op = "del"
  /\ last.caught = "nothing"
  /\ last.had # Nil /\ store[last.key] = Nil
  /\ \E j \in Keys \ {last.key} : store[j] # Nil /\ GlobMatch(<<Head(last.key), "*">>, j)

\* C19: once clear() has completed with the store's answer, the keyspace is
\* empty: get returns absent for every key.
Thm_C19 ==
  [][CallStep("clear") /\ last'.caught # "store" =>
       \A k \in Keys : store'[k] = Nil /\ Get(store', k) = Null]_vars

\* C19's case: clear emptied a store that held several entries.
Wit_C19 ==
  /\ last.op = "clear"
  /\ last.caught = "nothing"
  /\ Cardinality(last.held) >= 2
  /\ store = EmptyStore

\* C20 as stated: disconnect never raises to its caller, also when the client
\* is disconnected already or the release of the connection fails.
Orig_C20 == last.op = "disconnect" => ~last.raised

\* The expiration the store command of the set that wrote k's entry carried.
AppliedExpiry(k) ==
  IF Truthy(origin[k].ttl) THEN origin[k].at + origin[k].ttl[1] ELSE NoExpiry

\* C21: last write wins: an entry that sets of the client wrote holds the
\* value of the set the store applied last and carries that set's expiration,
\* and get returns that value; nothing of an earlier set is left.
Thm_C21 ==
  \A k \in ClientKeys :
    origin[k] # NoValue /\ store[k] # Nil =>
      /\ store[k] = JsonStringify(origin[k].v)
      /\ Get(store, k) = origin[k].v
      /\ expires[k] = AppliedExpiry(k)

\* C21's case: a set without ttl overwrote the entry an earlier set had
\* written, and the entry is there after a second has passed.
Wit_C21 ==
  \E k \in ClientKeys :
    /\ origin[k] # NoValue /\ origin[k].over
    /\ origin[k].ttl = <<>>
    /\ now > origin[k].at
    /\ store[k] = JsonStringify(origin[k].v)

\* The scan of call c has ended and the 'end' handler has run to its end.
ScanEnded(c) == pc[c] \in {"done", "failed"} /\ unvisited[c] = {}

\* C22 as stated: a logger that raises changes no outcome: get, set, del and
\* clear do not raise, a delPattern call whose scan ended resolves with its
\* tally, and one whose scan failed is rejected with the scan's error.
Orig_C22 ==
  /\ last.op \in {"get", "set", "del", "clear"} => ~last.raised
  /\ \A c \in Calls :
       /\ ScanEnded(c) => settled[c] = "resolved" /\ result[c] = deletedCount[c]
       /\ pc[c] = "failed" /\ unvisited[c] # {} =>
            settled[c] = "rejected" /\ error[c] = ScanErr

\* C23 as stated: every batch-delete delPattern issues holds at most
\* batchSize keys.
Orig_C23 ==
  \A c \in Calls : \A i \in Batches(c) : Len(pipes[c][i].keys) <= BatchSize

\* The counts of those of the first n pipelines of call c that the store has
\* acknowledged so far.
RECURSIVE SumOfAcked(_, _)
SumOfAcked(c, n) ==
  IF n = 0 THEN 0
  ELSE (IF pipes[c][n].st = "fulfilled" THEN BatchCount(c, n) ELSE 0)
       + SumOfAcked(c, n - 1)

\* C24: the scan's next batch is taken whether or not earlier batch-deletes
\* are still in flight, a batch-delete whose replies are in is acknowledged
\* whatever the state of the others and of the scan, and the tally is the sum
\* of the counts of the acknowledged batch-deletes, whatever the order in
\* which they were acknowledged.
Thm_C24 ==
  \A c \in Calls :
    /\ pc[c] = "scanning" /\ unvisited[c] # {} => ENABLED ScanData(c)
    /\ \A i \in Batches(c) :
         InFlight(c, i) /\ Len(pipes[c][i].res) = Len(pipes[c][i].keys) =>
           ENABLED PipelineThen(c, i)
    /\ deletedCount[c] = SumOfAcked(c, Len(pipes[c]))

\* C24's case: the scan goes on while two batch-deletes are in flight, or
\* while the later of two is acknowledged and counted and the earlier is still
\* in flight.
Wit_C24 ==
  \E c \in Calls :
    /\ pc[c] = "scanning" /\ unvisited[c] # {}
    /\ Len(pipes[c]) = 2
    /\ InFlight(c, 1)
    /\ pipes[c][2].st = "fulfilled"
    /\ deletedCount[c] = 1

\* The steps of the state machine of one call.
Transitions ==
  {<<"idle", "scanning">>, <<"scanning", "draining">>, <<"draining", "done">>,
   <<"scanning", "failed">>}

\* C25: a call moves SCANNING -> DRAINING -> DONE, or SCANNING -> FAILED; it
\* issues no batch-delete once its scan is over; it has resolved exactly when
\* it is DONE and has rejected, with the scan's error, exactly when it is
\* FAILED; and once settled, its outcome never changes.
Thm_C25 ==
  [][\A c \in Calls :
       /\ pc'[c] # pc[c] => <<pc[c], pc'[c]>> \in Transitions
       /\ pc[c] # "scanning" /\ pc[c] # "idle" => Len(pipes'[c]) = Len(pipes[c])
       /\ settled'[c] = "resolved" <=> pc'[c] = "done"
       /\ settled'[c] = "rejected" <=> pc'[c] = "failed"
       /\ settled'[c] = "rejected" => error'[c] = ScanErr
       /\ settled[c] # "pending" =>
            /\ settled'[c] = settled[c]
            /\ result'[c] = result[c]
            /\ error'[c] = error[c]]_vars

\* C25's case: one call went through DRAINING to DONE and resolved, and the
\* next one, whose scan failed after it had issued a batch-delete, rejected.
Wit_C25 ==
  /\ pc[1] = "done" /\ settled[1] = "resolved" /\ Len(pipes[1]) >= 1
  /\ pc[2] = "failed" /\ settled[2] = "rejected" /\ Len(pipes[2]) >= 1

\* C26: on a store that answers every command, a delPattern call eventually
\* settles; and nothing but the settling of its batch-deletes lets it resolve:
\* while one of them is in flight the call cannot resolve.
Thm_C26 ==
  /\ \A c \in Calls : (pc[c] = "scanning") ~> (settled[c] # "pending")
  /\ [](\A c \in Calls :
          (\E i \in Batches(c) : InFlight(c, i)) => ~ENABLED Resolve(c))

\* C26's case: a call whose scan ended settled after a batch-delete of its
\* had failed and another had completed.
Wit_C26 ==
  /\ pc[1] = "done" /\ settled[1] # "pending"
  /\ \E i \in Batches(1) : pipes[1][i].st = "rejected"
  /\ \E i \in Batches(1) : pipes[1][i].st = "fulfilled"

\* C27: the batch-deletes of a call that failed on a scan error stay tracked
\* and handled: one in flight has its completion taken by the then handler and
\* its failure by the catch handler, one that failed was logged, and none has
\* left a rejection unhandled; the call stays rejected with the scan's error.
Thm_C27 ==
  \A c \in Calls :
    pc[c] = "failed" =>
      /\ \A i \in Batches(c) :
           /\ InFlight(c, i) /\ Len(pipes[c][i].res) = Len(pipes[c][i].keys) =>
                ENABLED PipelineThen(c, i)
           /\ InFlight(c, i) /\ nFail < MaxFail => ENABLED PipelineCatch(c, i)
           /\ pipes[c][i].st = "rejected" =>
                LogEntry("error", "pipeline", c, i) \in logs
           /\ pipes[c][i].st \in {"sent", "fulfilled", "rejected"}
      /\ error[c] = ScanErr

\* C27's case: a call has failed on a scan error with one batch-delete whose
\* replies are in and not yet taken, and another that has failed.
Wit_C27 ==
  \E c \in Calls :
    /\ pc[c] = "failed" /\ settled[c] = "rejected"
    /\ \E i \in Batches(c) :
         InFlight(c, i) /\ Len(pipes[c][i].res) = Len(pipes[c][i].keys)
    /\ \E i \in Batches(c) : pipes[c][i].st = "rejected"

\* The key of the command x = <<pipeline, position>> of call c.
KeyOf(c, x) == pipes[c][x[1]].keys[x[2]]

\* C28: the batch-deletes a call issued before it failed on a scan error are
\* not withdrawn: the store goes on executing their commands, and what they
\* removed stays removed.
Thm_C28 ==
  \A c \in Calls :
    pc[c] = "failed" =>
      /\ \A i \in Batches(c) :
           InFlight(c, i) /\ Len(pipes[c][i].res) < Len(pipes[c][i].keys) =>
             ENABLED StoreExecDel(c, i)
      /\ \A x \in removedBy[c] :
           KeyOf(c, x) \notin touched[c] => store[KeyOf(c, x)] = Nil

\* C28's case: after a call failed on a scan error, one of the keys that
\* matched at its start has been removed and another is still there.
Wit_C28 ==
  \E c \in Calls :
    /\ pc[c] = "failed" /\ settled[c] = "rejected"
    /\ removedBy[c] # {}
    /\ \E k \in MatchedAtStart(c) : store[k] = Nil
    /\ \E k \in MatchedAtStart(c) : store[k] # Nil

\* C29: while a delPattern call is in flight, a key that does not match its
\* pattern holds what the client's own get, set and del calls leave under it:
\* the entry it had when the call started if none wrote it, the value of the
\* last set, or nothing after a del; a get the store answered returned that
\* entry; and the call's count is that of the matching keys, whatever the
\* client did to the other keys meanwhile.
Thm_C29 ==
  pc[1] # "idle" =>
    /\ \A k \in ClientKeys \ Matching(pattern[1]) :
         /\ k \notin touched[1] => store[k] = store0[1][k]
         /\ origin[k] # NoValue => store[k] = JsonStringify(origin[k].v)
         /\ k \in touched[1] /\ origin[k] = NoValue => store[k] = Nil
         /\ last.op = "get" /\ last.key = k /\ last.caught # "store" =>
              last.ret = Get(store, k)
    /\ settled[1] = "resolved" /\ NoBatchFailure(1) /\ MatchingTouched(1) = {} =>
         result[1] = Cardinality(MatchedAtStart(1))

\* C29's case: a set of a key outside the pattern was applied while the call
\* was in flight; the call resolved with the count of the matching keys and
\* the key holds the value set.
Wit_C29 ==
  /\ settled[1] = "resolved" /\ NoBatchFailure(1) /\ result[1] >= 1
  /\ last.op = "set" /\ last.caught = "nothing"
  /\ last.key \notin Matching(pattern[1])
  /\ touched[1] = {last.key}
  /\ store[last.key] = JsonStringify(V_zero)

\* The keys removed since the first call started.
RemovedKeys == {k \in Keys : store0[1][k] # Nil /\ store[k] = Nil}

\* The commands, of either call, whose DEL removed the entry of key k.
RemovalsOf(k) ==
  {<<c, x>> \in UNION {{c} \X removedBy[c] : c \in Calls} : KeyOf(c, x) = k}

\* Both calls have resolved.
BothResolved == settled[1] = "resolved" /\ settled[2] = "resolved"

Thm_C31 ==
  [][\A c \in Calls :
       /\ pc[c] = "idle" /\ pc'[c] # "idle" => deletedCount'[c] = 0
       /\ pc[c] # "idle" => deletedCount'[c] >= deletedCount[c]
       /\ pc[c] = "draining" /\ AllSettled(c) => deletedCount'[c] = deletedCount[c]
       /\ ResolvesNow(c) =>
            /\ result'[c] \in Nat
            /\ result'[c] = deletedCount[c]
            /\ \A i \in Batches(c) : ~InFlight(c, i)]_vars

\* C31's case: a call resolved with a count of at least 1 after one of its
\* DEL commands had found its key gone and added 0.
Wit_C31 ==
  \E c \in Calls :
    /\ settled[c] = "resolved" /\ result[c] >= 1
    /\ \E i \in Batches(c) : \E j \in 1..Len(pipes[c][i].res) :
         ~pipes[c][i].res[j].err /\ pipes[c][i].res[j].count = 0

\* C32: when the replies of a batch-delete are taken, each command is
\* accounted for on its own: the tally grows by the number of commands that
\* came back without error with a count of 1, whatever the other commands of
\* the batch came back with.
Thm_C32 ==
  [][\A c \in Calls : \A i \in Batches(c) :
       InFlight(c, i) /\ pipes'[c][i].st = "fulfilled" =>
         deletedCount'[c] = deletedCount[c] + BatchCount(c, i)]_vars

\* C32's case: a batch-delete with a failed command and a command that removed
\* its key was taken and added its partial count to the tally.
Wit_C32 ==
  \E c \in Calls : \E i \in Batches(c) :
    /\ pipes[c][i].st = "fulfilled"
    /\ HasCommandError(c, i)
    /\ BatchCount(c, i) >= 1
    /\ deletedCount[c] >= BatchCount(c, i)

\* The slots the scan of call c covers in this step.
Covered(c) == unvisited[c] \ unvisited'[c]

\* C33: a scan step that reports no key issues no batch-delete, tracks
\* nothing and leaves the tally as it is; a call that has issued no
\* batch-delete when its scan ends can resolve at once, and resolves with 0.
Thm_C33 ==
  [][\A c \in Calls :
       /\ pc[c] = "scanning" /\ Covered(c) # {} /\ ScanBatch(c, Covered(c)) = {} =>
            pipes'[c] = pipes[c] /\ deletedCount'[c] = deletedCount[c]
       /\ pc[c] = "draining" /\ pipes[c] = <<>> => ENABLED Resolve(c)
       /\ ResolvesNow(c) /\ pipes[c] = <<>> => result'[c] = 0]_vars

\* C33's case: the scan of a store that holds entries reported only empty
\* batches, and the call resolved with 0 without a batch-delete.
Wit_C33 ==
  \E c \in Calls :
    /\ pc[c] = "done" /\ settled[c] = "resolved"
    /\ pipes[c] = <<>> /\ result[c] = 0
    /\ store0[c] # EmptyStore /\ store = store0[c]

\* The cases in which get(k) has nothing to return: no entry under k (never
\* set, removed or expired), an empty string, bytes that decode to null, bytes
\* that do not decode.
NothingToReturn(k) ==
  \/ store[k] = Nil
  \/ store[k] = B_empty
  \/ JsonParse(store[k]) = Null
  \/ JsonParse(store[k]) = SyntaxError

\* C34: get(k) returns null exactly when there is nothing to return under k
\* or its store call fails; so it returns null for an entry that set(k, null)
\* wrote, as it does for a key without entry.
Thm_C34 ==
  [][\A k \in ClientKeys :
       KeyStep("get", k) =>
         /\ last'.ret = Null <=> (NothingToReturn(k) \/ last'.caught = "store")
         /\ Live(k) /\ origin[k].v = Null => last'.ret = Null]_vars

\* C34's case: get returned null for the entry that set(k, null) had written
\* and that is still there.
Wit_C34 ==
  /\ last.op = "get" /\ last.caught = "nothing" /\ last.ret = Null
  /\ origin[last.key] # NoValue /\ origin[last.key].v = Null
  /\ store[last.key] = JsonStringify(Null)

\* C35: a get call, whatever it returns, leaves every entry of the store and
\* every expiration as it was.
Thm_C35 ==
  [][CallStep("get") => store' = store /\ expires' = expires]_vars

\* C35's case: get returned the value of an entry that expires, and the entry
\* and its expiration are still there.
Wit_C35 ==
  /\ last.op = "get" /\ last.caught = "nothing" /\ last.ret # Null
  /\ store[last.key] # Nil
  /\ expires[last.key] # NoExpiry

====
